---- MODULE Spec2Model ----
(***************************************************************************)
(* Client-side conversation state machine of the study-abroad intake       *)
(* widget (frontend App component and its transport module).               *)
(*                                                                         *)
(* State is the React state of App, the transport calls in flight and the  *)
(* scroll positions of its two scrolling lists.                            *)
(* Every action is one browser event (a click, a key press, a change of a  *)
(* form control, the settlement of a transport promise) and runs the whole *)
(* handler the markup attaches to it.  An event is enabled only where the  *)
(* markup renders its control and leaves it enabled.                       *)
(***************************************************************************)
EXTENDS Integers, Sequences, FiniteSets, TLC

VARIABLES
    sessionId,          \* useState("")    Session.id, "" = absent
    messages,           \* useState([])    timeline of {sender, text, ts}
    input,              \* useState("")    compose buffer
    quickReplies,       \* useState([])    current quick-reply list
    starting,           \* useState(false) start handshake busy flag
    startName,          \* useState("")    start form: name
    startEmail,         \* useState("")    start form: email
    startPhone,         \* useState("")    start form: phone
    validationErrors,   \* useState({})    field -> message
    loading,            \* useState(false) busy flag shared by send and upload
    minimized,          \* useState(false) collapsed display mode
    fileValue,          \* fileRef.current.value of the mounted file input
    pending,            \* transport calls issued and not yet settled
    issued,             \* number of transport calls issued so far
    clock,              \* reading of the wall clock (new Date()): a
                        \* handler runs within one tick, a transport
                        \* call takes one tick to settle
    origin,             \* history: for each timeline entry, who appended it
    lastReply,          \* history: quick_replies member of the latest
                        \* sendMessage response
    settingsOpen,       \* useState(false) the settings menu is open
    settingsPage,       \* useState("language") active category
    submenuTop,         \* useState(0)     top offset of the flyout submenu
    rootScrollTop,      \* scrollTop of the root list that is displayed; 0
                        \* while no root list is mounted
    rootList,           \* which of the two root lists is displayed, the
                        \* other one having display: none at this window
                        \* width; "none" while no list is mounted
    pointerY,           \* history: e.clientY of the latest pointer move
                        \* over the displayed root list, measured from the
                        \* top of that list; -1 before any
    showScrollButton,   \* useState(false) the scroll-to-bottom button shows
    scrollTop           \* listRef.current.scrollTop; 0 while the message
                        \* list is not mounted

\* the conversation
conversation == <<sessionId, messages, input, quickReplies, starting,
                  startName, startEmail, startPhone, validationErrors,
                  loading, minimized, fileValue, pending, issued, clock,
                  origin, lastReply>>

\* the settings menu
menu == <<settingsOpen, settingsPage, submenuTop, rootScrollTop, rootList,
          pointerY>>

\* the scrolling message list
list == <<showScrollButton, scrollTop>>

vars == <<conversation, menu, list>>

-----------------------------------------------------------------------------
(* Bounds *)

\* transport calls issued in one run
MaxCalls == 4

\* transport calls issued in one run of the specification with fairness
MaxFairCalls == 3

\* layout of a root list: height of an entry, of a divider and of the
\* visible part of the list (max-h-64)
EntryHeight == 10
DividerHeight == 2
RootListHeight == 40

\* layout of the message list: height of a message, of the row of quick
\* replies and of the visible part of the list, and the grain of the
\* positions a scroll event reports
MsgHeight == 10
RepliesHeight == 5
ViewHeight == 20
ScrollGrain == 10

\* transport calls issued in one run that follows the message list
MaxScrollCalls == 3

\* transport calls issued in one run that also opens the settings menu
MaxFrameCalls == 3

\* transport calls issued in one run with scroll events and the settings menu
MaxEventCalls == 3

-----------------------------------------------------------------------------
(* Input domains *)

\* values typed into the start form
Names == {"", " ", " Jane Doe "}
Emails == {"", "bad", "jane@x.com", "a@b"}
Phones == {"", "+1 555-123-4567", "12345", "555-CALL-NOW"}

\* phone values around the length and the character class of the check
PhoneHeads == {"", "+", "(", "1", "x", " "}
PhoneBodies == {"12345678", "1234 5678)"}
PhoneTails == {"", "9", "90", "+", "+0", " ", "\t0", "x0", "-0"}
PhoneTexts ==
    {h \o b \o t : h \in PhoneHeads, b \in PhoneBodies, t \in PhoneTails}

\* values typed into the compose box
InputTexts == {"", " Hello "}

\* files offered by the file picker; NoFile is an empty FileList
NoFile == ""
Files == {"doc.pdf"}

\* what the backend can answer
SessionIds == {"s1"}
BotMessages == {"Hi!"}

Undefined == [kind |-> "undefined", items |-> <<>>]
Arr(s) == [kind |-> "array", items |-> s]
Obj(s) == [kind |-> "object", items |-> s]

\* shapes of the quick_replies member of a sendMessage response
QuickReplyShapes ==
    {Undefined, Arr(<<"Yes">>), Obj(<<"Maybe">>)}

StartResponses == [session_id : SessionIds, bot_message : BotMessages]
SendResponses == [bot_message : BotMessages, quick_replies : QuickReplyShapes]

-----------------------------------------------------------------------------
(* Strings *)

CharAt(s, i) == SubSeq(s, i, i)

\* white space as String.prototype.trim and the regex class \s see it
IsSpace(c) == c \in {" ", "\t", "\n"}

RECURSIVE trimStart(_)
trimStart(s) ==
    IF Len(s) > 0 /\ IsSpace(CharAt(s, 1)) THEN trimStart(Tail(s)) ELSE s

RECURSIVE trimEnd(_)
trimEnd(s) ==
    IF Len(s) > 0 /\ IsSpace(CharAt(s, Len(s)))
    THEN trimEnd(SubSeq(s, 1, Len(s) - 1))
    ELSE s

trim(s) == trimEnd(trimStart(s))

\* ToBoolean of a string: only "" is falsy
Truthy(s) == s # ""

IsDigit(c) == c \in {"0", "1", "2", "3", "4", "5", "6", "7", "8", "9"}

\* the class [^\s@]
NotSpaceNorAt(c) == ~IsSpace(c) /\ c # "@"

\* every character of s[from..to] is in [^\s@], and there is at least one
LocalRun(s, from, to) ==
    /\ from <= to
    /\ \A k \in from..to : NotSpaceNorAt(CharAt(s, k))

\* variant: the pattern lacks the dot and the top-level part
validateEmailNoTld(email) ==
    \E i \in 1..Len(email) :
        /\ CharAt(email, i) = "@"
        /\ LocalRun(email, 1, i - 1)
        /\ LocalRun(email, i + 1, Len(email))

\* /^[^\s@]+@[^\s@]+\.[^\s@]+$/
validateEmail(email) ==
    \E i \in 1..Len(email) : \E j \in 1..Len(email) :
        /\ CharAt(email, i) = "@"
        /\ CharAt(email, j) = "."
        /\ LocalRun(email, 1, i - 1)
        /\ LocalRun(email, i + 1, j - 1)
        /\ LocalRun(email, j + 1, Len(email))

\* the class [0-9\s\-\(\)]
IsPhoneChar(c) == IsDigit(c) \/ IsSpace(c) \/ c \in {"-", "(", ")"}

\* variant: the plus sign belongs to the class
validatePhoneLoose(phone) ==
    /\ Len(phone) >= 10
    /\ \A k \in 1..Len(phone) :
          IsPhoneChar(CharAt(phone, k)) \/ CharAt(phone, k) = "+"

\* /^[\+]?[0-9\s\-\(\)]{10,}$/
validatePhone(phone) ==
    LET body == IF Len(phone) > 0 /\ CharAt(phone, 1) = "+"
                THEN Tail(phone) ELSE phone
    IN  /\ Len(body) >= 10
        /\ \A k \in 1..Len(body) : IsPhoneChar(CharAt(body, k))

-----------------------------------------------------------------------------
(* Fixed texts *)

NAME_REQUIRED == "Name is required"
EMAIL_REQUIRED == "Email is required"
EMAIL_INVALID == "Please enter a valid email address"
PHONE_REQUIRED == "Phone is required"
PHONE_INVALID == "Please enter a valid phone number"
START_FALLBACK == "Unable to start session. Please try again."
SEND_FALLBACK == "Sorry, something went wrong."
UPLOAD_OK == "Document received and queued for processing."
UPLOAD_FALLBACK == "Upload failed. Try again."

-----------------------------------------------------------------------------
(* Fixed numbers *)

\* autoScrollHover: const threshold = 20, and the step of 12
HoverBand == 20
HoverStep == 12

\* handleScroll: scrollTop + clientHeight >= scrollHeight - 10
BottomTolerance == 10

-----------------------------------------------------------------------------
(* State helpers *)

NoSession == ""

\* variant: the session test always passes
HasSessionAlways == TRUE

\* the test `sessionId` / `!sessionId` of onSend, onUpload and the render gate
HasSession == Truthy(sessionId)

\* {!minimized && ( <card/> )}
CardRendered == ~minimized

\* {!sessionId ? ( <start card/> ) : ( <chat/> )}
StartCardRendered == CardRendered /\ ~HasSession
ChatRendered == CardRendered /\ HasSession

\* variant: any value that carries items passes for an array
IsArrayLoose(v) == v.kind \in {"array", "object"}

\* Array.isArray(v)
IsArray(v) == v.kind = "array"

\* a transport call: `at` is the length of the timeline when the call was
\* issued (for a send, the index of the user message it has just appended),
\* `qr` the quick-reply list at that moment
Call(op, args, at) ==
    [id |-> issued + 1, op |-> op, args |-> args, at |-> at,
     qr |-> quickReplies]

InFlight(op) == {c \in pending : c.op = op}

\* variant: the new entry is put in front of the timeline
pushMsgFront(prev, m, now) ==
    <<[sender |-> m.sender, text |-> m.text, ts |-> now]>> \o prev

\* variant: the new entry overwrites the newest one
pushMsgReplace(prev, m, now) ==
    IF prev = <<>>
    THEN <<[sender |-> m.sender, text |-> m.text, ts |-> now]>>
    ELSE [prev EXCEPT ![Len(prev)] =
              [sender |-> m.sender, text |-> m.text, ts |-> now]]

\* setMessages(prev => [...prev, {...m, ts: new Date().toISOString()}])
pushMsg(prev, m, now) ==
    Append(prev, [sender |-> m.sender, text |-> m.text, ts |-> now])

Bot(text) == [sender |-> "bot", text |-> text]
User(text) == [sender |-> "user", text |-> text]

\* the errors object startChat builds
errorsOf(name, email, phone) ==
    LET nameErr == IF ~Truthy(trim(name)) THEN <<NAME_REQUIRED>> ELSE <<>>
        emailErr == IF ~Truthy(trim(email)) THEN <<EMAIL_REQUIRED>>
                    ELSE IF ~validateEmail(trim(email)) THEN <<EMAIL_INVALID>>
                    ELSE <<>>
        phoneErr == IF ~Truthy(trim(phone)) THEN <<PHONE_REQUIRED>>
                    ELSE IF ~validatePhone(trim(phone)) THEN <<PHONE_INVALID>>
                    ELSE <<>>
        found == [name |-> nameErr, email |-> emailErr, phone |-> phoneErr]
    IN  [f \in {g \in DOMAIN found : found[g] # <<>>} |-> found[f][1]]

-----------------------------------------------------------------------------
(* Initial state: the useState initialisers, nothing in flight *)

Init ==
    /\ sessionId = NoSession
    /\ messages = <<>>
    /\ input = ""
    /\ quickReplies = <<>>
    /\ starting = FALSE
    /\ startName = ""
    /\ startEmail = ""
    /\ startPhone = ""
    /\ validationErrors = <<>>
    /\ loading = FALSE
    /\ minimized = FALSE
    /\ fileValue = ""
    /\ pending = {}
    /\ issued = 0
    /\ clock = 0
    /\ origin = <<>>
    /\ lastReply = Undefined
    /\ settingsOpen = FALSE
    /\ settingsPage = "language"
    /\ submenuTop = 0
    /\ rootScrollTop = 0
    /\ rootList = "none"
    /\ pointerY = -1
    /\ showScrollButton = FALSE
    /\ scrollTop = 0

-----------------------------------------------------------------------------
(* SessionController *)

\* onChange of the three start-form inputs
TypeStartName(v) ==
    /\ StartCardRendered
    /\ startName' = v
    /\ UNCHANGED <<sessionId, messages, input, quickReplies, starting,
                   startEmail, startPhone, validationErrors, loading,
                   minimized, fileValue, pending, issued, clock, origin,
                   lastReply>>

TypeStartEmail(v) ==
    /\ StartCardRendered
    /\ startEmail' = v
    /\ UNCHANGED <<sessionId, messages, input, quickReplies, starting,
                   startName, startPhone, validationErrors, loading,
                   minimized, fileValue, pending, issued, clock, origin,
                   lastReply>>

TypeStartPhone(v) ==
    /\ StartCardRendered
    /\ startPhone' = v
    /\ UNCHANGED <<sessionId, messages, input, quickReplies, starting,
                   startName, startEmail, validationErrors, loading,
                   minimized, fileValue, pending, issued, clock, origin,
                   lastReply>>

\* variant: the errors of an attempt are merged into the map
startChatKeepsErrors ==
    LET errors == errorsOf(startName, startEmail, startPhone) IN
    /\ validationErrors' =
           [f \in DOMAIN errors \cup DOMAIN validationErrors |->
               IF f \in DOMAIN errors THEN errors[f] ELSE validationErrors[f]]
    /\ IF DOMAIN errors # {}
       THEN UNCHANGED <<starting, pending, issued>>
       ELSE /\ starting' = TRUE
            /\ pending' = pending \cup
                   {Call("start", <<trim(startName), trim(startPhone),
                                    trim(startEmail)>>, Len(messages))}
            /\ issued' = issued + 1
    /\ UNCHANGED <<sessionId, messages, input, quickReplies, startName,
                   startEmail, startPhone, loading, minimized, fileValue,
                   clock, origin, lastReply>>

\* startChat up to its await
startChat ==
    LET errors == errorsOf(startName, startEmail, startPhone) IN
    /\ validationErrors' = errors
    /\ IF DOMAIN errors # {}
       THEN UNCHANGED <<starting, pending, issued>>
       ELSE /\ starting' = TRUE
            /\ pending' = pending \cup
                   {Call("start", <<trim(startName), trim(startPhone),
                                    trim(startEmail)>>, Len(messages))}
            /\ issued' = issued + 1
    /\ UNCHANGED <<sessionId, messages, input, quickReplies, startName,
                   startEmail, startPhone, loading, minimized, fileValue,
                   clock, origin, lastReply>>

\* variant: the button stays enabled while a start is in flight
ClickStartWhileStarting ==
    /\ StartCardRendered
    /\ startChat

\* <button onClick={startChat} disabled={starting}>
ClickStart ==
    /\ StartCardRendered
    /\ ~starting
    /\ startChat

\* variant: the session id of the response is dropped
StartResolvedDropsId(c, data) ==
    /\ c \in InFlight("start")
    /\ pending' = pending \ {c}
    /\ clock' = clock + 1
    /\ messages' = pushMsg(messages, Bot(data.bot_message), clock')
    /\ origin' = Append(origin, "start")
    /\ starting' = FALSE
    /\ UNCHANGED <<sessionId, input, quickReplies, startName, startEmail,
                   startPhone, validationErrors, loading, minimized,
                   fileValue, issued, lastReply>>

\* startChat after its await: startSession resolved with data
StartResolved(c, data) ==
    /\ c \in InFlight("start")
    /\ pending' = pending \ {c}
    /\ clock' = clock + 1
    /\ sessionId' = data.session_id
    /\ messages' = pushMsg(messages, Bot(data.bot_message), clock')
    /\ origin' = Append(origin, "start")
    /\ starting' = FALSE
    /\ UNCHANGED <<input, quickReplies, startName, startEmail, startPhone,
                   validationErrors, loading, minimized, fileValue, issued,
                   lastReply>>

\* variant: the failure path does not release the starting flag
StartRejectedKeepsStarting(c) ==
    /\ c \in InFlight("start")
    /\ pending' = pending \ {c}
    /\ clock' = clock + 1
    /\ messages' = pushMsg(messages, Bot(START_FALLBACK), clock')
    /\ origin' = Append(origin, "startFail")
    /\ UNCHANGED <<sessionId, input, quickReplies, starting, startName,
                   startEmail, startPhone, validationErrors, loading,
                   minimized, fileValue, issued, lastReply>>

\* startChat after its await: startSession rejected
StartRejected(c) ==
    /\ c \in InFlight("start")
    /\ pending' = pending \ {c}
    /\ clock' = clock + 1
    /\ messages' = pushMsg(messages, Bot(START_FALLBACK), clock')
    /\ origin' = Append(origin, "startFail")
    /\ starting' = FALSE
    /\ UNCHANGED <<sessionId, input, quickReplies, startName, startEmail,
                   startPhone, validationErrors, loading, minimized,
                   fileValue, issued, lastReply>>

-----------------------------------------------------------------------------
(* ConversationStore and InputComposer *)

\* the argument of onSend: absent, or the text of a quick reply
NoOverride == [given |-> FALSE, text |-> ""]
Override(s) == [given |-> TRUE, text |-> s]

\* (overrideText ?? input).trim()
sendText(overrideText) ==
    trim(IF overrideText.given THEN overrideText.text ELSE input)

\* variant: the send does not set loading
onSendNoLoading(overrideText) ==
    LET text == sendText(overrideText) IN
    IF ~HasSession \/ ~Truthy(text)
    THEN UNCHANGED vars
    ELSE /\ messages' = pushMsg(messages, User(text), clock)
         /\ origin' = Append(origin, "user")
         /\ input' = IF overrideText.given THEN input ELSE ""
         /\ pending' = pending \cup
                {Call("send", <<sessionId, text>>, Len(messages) + 1)}
         /\ issued' = issued + 1
         /\ UNCHANGED <<sessionId, quickReplies, starting, startName,
                        startEmail, startPhone, validationErrors, minimized,
                        fileValue, clock, lastReply, loading>>

\* variant: every send clears the compose buffer
onSendClearsInput(overrideText) ==
    LET text == sendText(overrideText) IN
    IF ~HasSession \/ ~Truthy(text)
    THEN UNCHANGED vars
    ELSE /\ messages' = pushMsg(messages, User(text), clock)
         /\ origin' = Append(origin, "user")
         /\ input' = ""
         /\ loading' = TRUE
         /\ pending' = pending \cup
                {Call("send", <<sessionId, text>>, Len(messages) + 1)}
         /\ issued' = issued + 1
         /\ UNCHANGED <<sessionId, quickReplies, starting, startName,
                        startEmail, startPhone, validationErrors, minimized,
                        fileValue, clock, lastReply>>

\* onSend up to its await
onSend(overrideText) ==
    LET text == sendText(overrideText) IN
    IF ~HasSession \/ ~Truthy(text)
    THEN UNCHANGED vars
    ELSE /\ messages' = pushMsg(messages, User(text), clock)
         /\ origin' = Append(origin, "user")
         /\ input' = IF overrideText.given THEN input ELSE ""
         /\ loading' = TRUE
         /\ pending' = pending \cup
                {Call("send", <<sessionId, text>>, Len(messages) + 1)}
         /\ issued' = issued + 1
         /\ UNCHANGED <<sessionId, quickReplies, starting, startName,
                        startEmail, startPhone, validationErrors, minimized,
                        fileValue, clock, lastReply>>

\* <input value={input} onChange={...} disabled={loading}/>
TypeInput(v) ==
    /\ ChatRendered
    /\ ~loading
    /\ input' = v
    /\ UNCHANGED <<sessionId, messages, quickReplies, starting, startName,
                   startEmail, startPhone, validationErrors, loading,
                   minimized, fileValue, pending, issued, clock, origin,
                   lastReply>>

\* variant: the commit key is taken while the input is disabled
PressEnterWhileLoading ==
    /\ ChatRendered
    /\ onSend(NoOverride)

\* onKeyDown={(e) => e.key === 'Enter' && onSend()} of the same input
PressEnter ==
    /\ ChatRendered
    /\ ~loading
    /\ onSend(NoOverride)

\* <button onClick={() => onSend()} disabled={loading || !input.trim()}>
ClickSend ==
    /\ ChatRendered
    /\ ~(loading \/ ~Truthy(trim(input)))
    /\ onSend(NoOverride)

\* quickReplies.map((qr, i) => <button onClick={() => onSend(qr)}>)
ClickQuickReply(i) ==
    /\ ChatRendered
    /\ i \in 1..Len(quickReplies)
    /\ onSend(Override(quickReplies[i]))

\* onSend after its await: sendMessage resolved with res
SendResolved(c, res) ==
    /\ c \in InFlight("send")
    /\ pending' = pending \ {c}
    /\ clock' = clock + 1
    /\ messages' = pushMsg(messages, Bot(res.bot_message), clock')
    /\ quickReplies' = IF IsArray(res.quick_replies)
                       THEN res.quick_replies.items ELSE <<>>
    /\ origin' = Append(origin, "send")
    /\ lastReply' = res.quick_replies
    /\ loading' = FALSE
    /\ UNCHANGED <<sessionId, input, starting, startName, startEmail,
                   startPhone, validationErrors, minimized, fileValue, issued>>

\* variant: the failure path also empties the quick replies
SendRejectedClearsReplies(c) ==
    /\ c \in InFlight("send")
    /\ pending' = pending \ {c}
    /\ clock' = clock + 1
    /\ messages' = pushMsg(messages, Bot(SEND_FALLBACK), clock')
    /\ origin' = Append(origin, "sendFail")
    /\ loading' = FALSE
    /\ quickReplies' = <<>>
    /\ UNCHANGED <<sessionId, input, starting, startName, startEmail,
                   startPhone, validationErrors, minimized, fileValue, issued,
                   lastReply>>

\* variant: a rejected sendMessage is issued again
SendRejectedRetries(c) ==
    /\ c \in InFlight("send")
    /\ pending' = (pending \ {c}) \cup {Call("send", c.args, c.at)}
    /\ issued' = issued + 1
    /\ clock' = clock + 1
    /\ messages' = pushMsg(messages, Bot(SEND_FALLBACK), clock')
    /\ origin' = Append(origin, "sendFail")
    /\ loading' = FALSE
    /\ UNCHANGED <<sessionId, input, quickReplies, starting, startName,
                   startEmail, startPhone, validationErrors, minimized,
                   fileValue, lastReply>>

\* onSend after its await: sendMessage rejected
SendRejected(c) ==
    /\ c \in InFlight("send")
    /\ pending' = pending \ {c}
    /\ clock' = clock + 1
    /\ messages' = pushMsg(messages, Bot(SEND_FALLBACK), clock')
    /\ origin' = Append(origin, "sendFail")
    /\ loading' = FALSE
    /\ UNCHANGED <<sessionId, input, quickReplies, starting, startName,
                   startEmail, startPhone, validationErrors, minimized,
                   fileValue, issued, lastReply>>

-----------------------------------------------------------------------------
(* UploadCoordinator *)

\* onUpload up to its await; file is e.target.files?.[0]
onUpload(file) ==
    IF file = NoFile \/ ~HasSession
    THEN UNCHANGED <<loading, pending, issued>>
    ELSE /\ loading' = TRUE
         /\ pending' = pending \cup
                {Call("upload", <<sessionId, file>>, Len(messages))}
         /\ issued' = issued + 1

\* variant: choosing a file withdraws the quick replies
ChooseFileClearsReplies(file) ==
    /\ ChatRendered
    /\ ~loading
    /\ file # fileValue
    /\ fileValue' = file
    /\ onUpload(file)
    /\ quickReplies' = <<>>
    /\ UNCHANGED <<sessionId, messages, input, starting,
                   startName, startEmail, startPhone, validationErrors,
                   minimized, clock, origin, lastReply>>

\* <input ref={fileRef} type="file" onChange={onUpload} disabled={loading}/>
\* a change event fires only when the selection changes
ChooseFile(file) ==
    /\ ChatRendered
    /\ ~loading
    /\ file # fileValue
    /\ fileValue' = file
    /\ onUpload(file)
    /\ UNCHANGED <<sessionId, messages, input, quickReplies, starting,
                   startName, startEmail, startPhone, validationErrors,
                   minimized, clock, origin, lastReply>>

\* variant: the upload's finally block leaves the loading flag set
uploadFinallyKeepsLoading ==
    /\ fileValue' = IF ChatRendered THEN "" ELSE fileValue
    /\ loading' = loading

\* finally { if (fileRef.current) fileRef.current.value = "";
\*           setLoading(false) }
uploadFinally ==
    /\ fileValue' = IF ChatRendered THEN "" ELSE fileValue
    /\ loading' = FALSE

\* variant: a successful upload is not acknowledged in the timeline
UploadResolvedSilent(c) ==
    /\ c \in InFlight("upload")
    /\ pending' = pending \ {c}
    /\ clock' = clock + 1
    /\ uploadFinally
    /\ UNCHANGED <<sessionId, messages, origin, input, quickReplies, starting,
                   startName, startEmail, startPhone, validationErrors,
                   minimized, issued, lastReply>>

\* onUpload after its await: uploadDocument resolved
UploadResolved(c) ==
    /\ c \in InFlight("upload")
    /\ pending' = pending \ {c}
    /\ clock' = clock + 1
    /\ messages' = pushMsg(messages, Bot(UPLOAD_OK), clock')
    /\ origin' = Append(origin, "upload")
    /\ uploadFinally
    /\ UNCHANGED <<sessionId, input, quickReplies, starting, startName,
                   startEmail, startPhone, validationErrors, minimized, issued,
                   lastReply>>

\* variant: the failure path leaves the file selection in place
UploadRejectedKeepsFile(c) ==
    /\ c \in InFlight("upload")
    /\ pending' = pending \ {c}
    /\ clock' = clock + 1
    /\ messages' = pushMsg(messages, Bot(UPLOAD_FALLBACK), clock')
    /\ origin' = Append(origin, "uploadFail")
    /\ loading' = FALSE
    /\ UNCHANGED <<sessionId, input, quickReplies, starting, startName,
                   startEmail, startPhone, validationErrors, minimized,
                   fileValue, issued, lastReply>>

\* onUpload after its await: uploadDocument rejected
UploadRejected(c) ==
    /\ c \in InFlight("upload")
    /\ pending' = pending \ {c}
    /\ clock' = clock + 1
    /\ messages' = pushMsg(messages, Bot(UPLOAD_FALLBACK), clock')
    /\ origin' = Append(origin, "uploadFail")
    /\ uploadFinally
    /\ UNCHANGED <<sessionId, input, quickReplies, starting, startName,
                   startEmail, startPhone, validationErrors, minimized, issued,
                   lastReply>>

-----------------------------------------------------------------------------
(* Display mode *)

\* variant: minimizing drops the calls in flight
MinimizeCancels ==
    /\ CardRendered
    /\ minimized' = TRUE
    /\ fileValue' = ""
    /\ pending' = {}
    /\ UNCHANGED <<sessionId, messages, input, quickReplies, starting,
                   startName, startEmail, startPhone, validationErrors,
                   loading, issued, clock, origin, lastReply>>

\* variant: minimizing also empties the compose buffer
MinimizeClearsInput ==
    /\ CardRendered
    /\ minimized' = TRUE
    /\ fileValue' = ""
    /\ input' = ""
    /\ UNCHANGED <<sessionId, messages, quickReplies, starting, startName,
                   startEmail, startPhone, validationErrors, loading,
                   pending, issued, clock, origin, lastReply>>

\* <button onClick={() => setMinimized(true)}>: the card, and with it the
\* file input, is unmounted
Minimize ==
    /\ CardRendered
    /\ minimized' = TRUE
    /\ fileValue' = ""
    /\ UNCHANGED <<sessionId, messages, input, quickReplies, starting,
                   startName, startEmail, startPhone, validationErrors,
                   loading, pending, issued, clock, origin, lastReply>>

\* variant: the restored card starts over without a session
RestoreWithoutSession ==
    /\ minimized
    /\ minimized' = FALSE
    /\ sessionId' = NoSession
    /\ UNCHANGED <<messages, input, quickReplies, starting,
                   startName, startEmail, startPhone, validationErrors,
                   loading, fileValue, pending, issued, clock, origin,
                   lastReply>>

\* {minimized && <button onClick={() => setMinimized(false)}>}
Restore ==
    /\ minimized
    /\ minimized' = FALSE
    /\ UNCHANGED <<sessionId, messages, input, quickReplies, starting,
                   startName, startEmail, startPhone, validationErrors,
                   loading, fileValue, pending, issued, clock, origin,
                   lastReply>>

-----------------------------------------------------------------------------
(* SettingsNavigator *)

\* the eight entries of the root list
Categories ==
    {"language", "theme", "notifications", "profile", "education", "prefs",
     "privacy", "communication"}

\* the children of a root list in document order; "-" is a divider
RootItems ==
    <<"language", "theme", "notifications", "-", "profile", "education",
      "prefs", "-", "privacy", "communication">>

\* the two <div ref={rootListRef}>: the list of the flyout layout (inside
\* "hidden lg:block"), whose entries carry data-active, and the list of the
\* in-panel layout (inside "block lg:hidden"), whose entries do not.  Both
\* are mounted while the menu is open and the window width decides which
\* one is displayed.
RootLists == {"flyout", "panel"}

\* rootListRef.current: the two lists are given the same ref object and the
\* refs are attached in document order, so it is the in-panel list, the
\* second one, whenever the lists are mounted
rootListRef == IF rootList = "none" THEN "none" ELSE "panel"

\* rootListRef.current.scrollTop: an element with display: none has no
\* scroll box, its scrollTop reads 0 and keeps no assignment
RefScrollTop == IF rootList = rootListRef THEN rootScrollTop ELSE 0

HeightOf(item) == IF item = "-" THEN DividerHeight ELSE EntryHeight

RECURSIVE TopOfItem(_)
\* offsetTop of the i-th child
TopOfItem(i) ==
    IF i = 1 THEN 0 ELSE TopOfItem(i - 1) + HeightOf(RootItems[i - 1])

\* offsetTop of the entry of a category
TopOf(page) ==
    TopOfItem(CHOOSE i \in DOMAIN RootItems : RootItems[i] = page)

\* scrollHeight of a root list and the largest scrollTop it takes
RootScrollHeight == TopOfItem(Len(RootItems) + 1)
MaxRootScroll ==
    IF RootScrollHeight > RootListHeight
    THEN RootScrollHeight - RootListHeight ELSE 0

\* what an element keeps of an assignment to its scrollTop
Clamp(v, max) == IF v < 0 THEN 0 ELSE IF v > max THEN max ELSE v

Min(a, b) == IF a < b THEN a ELSE b
Max(a, b) == IF a > b THEN a ELSE b

\* function Dropdown: if (!open) return null; it sits in the card's header
MenuMounted == CardRendered /\ settingsOpen

\* recalcSubmenuTop on the rendered page: the value submenuTop takes
recalcSubmenuTop(mounted, which, page, scrolled, current) ==
    IF ~mounted
    THEN current
    ELSE IF which = "flyout" /\ page \in Categories
         THEN TopOf(page) - scrolled
         ELSE current

\* the settings button: setSettingsOpen(v => !v); setSettingsPage('root');
\* then the effect on [settingsPage, settingsOpen]
ToggleSettings ==
    /\ CardRendered
    /\ settingsOpen' = ~settingsOpen
    /\ settingsPage' = "root"
    /\ rootScrollTop' = 0
    /\ rootList' \in IF settingsOpen' THEN RootLists ELSE {"none"}
    /\ submenuTop' = recalcSubmenuTop(settingsOpen', rootListRef',
                                      settingsPage', RefScrollTop',
                                      submenuTop)
    /\ UNCHANGED <<pointerY, conversation, list>>

\* the entry of page is in the visible part of the root list
EntryVisible(page) ==
    /\ TopOf(page) + EntryHeight > rootScrollTop
    /\ TopOf(page) < rootScrollTop + RootListHeight

\* handleSettingsHover(page, e) on onMouseEnter of an entry, then the effect
\* on [settingsPage, settingsOpen]
handleSettingsHover(page) ==
    /\ settingsPage' = page
    /\ submenuTop' = recalcSubmenuTop(TRUE, rootListRef, page, RefScrollTop,
                                      TopOf(page) - RefScrollTop)
    /\ UNCHANGED <<settingsOpen, rootScrollTop, rootList, pointerY>>

HoverCategory(page) ==
    /\ MenuMounted
    /\ EntryVisible(page)
    /\ handleSettingsHover(page)
    /\ UNCHANGED <<conversation, list>>

\* autoScrollHover(e) on onMouseMove of the displayed root list; y is
\* e.clientY measured from the top of that list.  The handler measures and
\* scrolls rootListRef.current: when that is the displayed list, rect is
\* the rectangle the pointer is in; when it has display: none, rect is all
\* zero and either branch assigns to a scrollTop that stays 0.
autoScrollHover(y) ==
    /\ rootScrollTop' =
           IF rootList # rootListRef
           THEN rootScrollTop
           ELSE IF y < HoverBand
           THEN Clamp(Max(0, rootScrollTop - HoverStep), MaxRootScroll)
           ELSE IF y > RootListHeight - HoverBand
                THEN Clamp(Min(RootScrollHeight, rootScrollTop + HoverStep),
                           MaxRootScroll)
                ELSE rootScrollTop
    /\ submenuTop' = recalcSubmenuTop(TRUE, rootListRef, settingsPage,
                                      RefScrollTop', submenuTop)
    /\ UNCHANGED <<settingsOpen, settingsPage, rootList>>

\* a mousemove event: the pointer has moved to y
MoveOverRootList(y) ==
    /\ MenuMounted
    /\ y # pointerY
    /\ pointerY' = y
    /\ autoScrollHover(y)
    /\ UNCHANGED <<conversation, list>>

\* what a render that mounts or unmounts the card does to the menu: the
\* state is kept, a mounted root list is a new element
MenuAfterRender ==
    /\ UNCHANGED <<settingsOpen, settingsPage, submenuTop, pointerY>>
    /\ IF CardRendered' = CardRendered
       THEN UNCHANGED <<rootScrollTop, rootList>>
       ELSE /\ rootScrollTop' = 0
            /\ rootList' \in IF CardRendered' /\ settingsOpen
                              THEN RootLists ELSE {"none"}

\* an event of the conversation: the message list is not followed
Quiet == MenuAfterRender /\ UNCHANGED list

-----------------------------------------------------------------------------
(* ScrollCoordinator *)

\* scrollHeight of the message list showing msgs and the row of replies
ScrollHeightOf(msgs, replies) ==
    Max(ViewHeight,
        Len(msgs) * MsgHeight + IF replies # <<>> THEN RepliesHeight ELSE 0)

\* the largest scrollTop the list takes
MaxScrollOf(msgs, replies) == ScrollHeightOf(msgs, replies) - ViewHeight

\* variant: no tolerance
isAtBottomExact(top, height) == top + ViewHeight >= height

\* handleScroll: scrollTop + clientHeight >= scrollHeight - 10
isAtBottom(top, height) == top + ViewHeight >= height - BottomTolerance

\* onScroll={handleScroll}: a scroll event of the message list that reports
\* position y, where the user scrolled or where scrollTop was assigned
ScrollList(y) ==
    /\ ChatRendered
    /\ y <= MaxScrollOf(messages, quickReplies)
    /\ scrollTop' = y
    /\ showScrollButton' =
           ~isAtBottom(y, ScrollHeightOf(messages, quickReplies))
    /\ UNCHANGED <<conversation, menu>>

\* {showScrollButton && <button onClick={scrollToBottom}>}
ClickScrollToBottom ==
    /\ ChatRendered
    /\ showScrollButton
    /\ scrollTop' = Clamp(ScrollHeightOf(messages, quickReplies),
                          MaxScrollOf(messages, quickReplies))
    /\ showScrollButton' = FALSE
    /\ UNCHANGED <<conversation, menu>>

\* the microtask pushMsg queues, run on a list that shows msgs and replies
\* at position top: the position it leaves
autoScroll(msgs, replies, top) ==
    Clamp(ScrollHeightOf(msgs, replies), MaxScrollOf(msgs, replies))

\* what an event of the conversation does to the message list.  A list that
\* is mounted by the render is a new element.  When the event appends a
\* message, pushMsg's microtask runs before any other event; it is queued
\* when React runs the updater, at the call of setMessages or during the
\* render, so it finds the list either as it was before the render
\* (reflected = FALSE) or as the render leaves it.
ListAfterRender ==
    LET appended == Len(messages') > Len(messages)
        before == ChatRendered
        after == ChatRendered'
        limit == MaxScrollOf(messages', quickReplies')
    IN  \E reflected \in BOOLEAN :
            /\ ~appended => reflected
            /\ IF ~appended
               THEN /\ scrollTop' = IF before /\ after
                                    THEN Clamp(scrollTop, limit) ELSE 0
                    /\ UNCHANGED showScrollButton
               ELSE IF reflected
               THEN /\ scrollTop' =
                           IF after
                           THEN autoScroll(messages', quickReplies',
                                           IF before THEN scrollTop ELSE 0)
                           ELSE 0
                    /\ showScrollButton' = (~after /\ showScrollButton)
               ELSE /\ scrollTop' =
                           IF before /\ after
                           THEN Clamp(autoScroll(messages, quickReplies,
                                                 scrollTop), limit)
                           ELSE 0
                    /\ showScrollButton' = (~before /\ showScrollButton)

\* an event of the conversation, followed to the message list
Followed == MenuAfterRender /\ ListAfterRender

-----------------------------------------------------------------------------
(* Specification *)

\* the transport layer completes a pending call, with either outcome
Settle ==
    \E c \in pending :
        \/ \E data \in StartResponses : StartResolved(c, data)
        \/ StartRejected(c)
        \/ \E res \in SendResponses : SendResolved(c, res)
        \/ SendRejected(c)
        \/ UploadResolved(c)
        \/ UploadRejected(c)

\* one event of the conversation, in a run that issues at most limit
\* transport calls; the position of the message list is not followed
Step(limit) ==
    \/ (\E v \in Names : TypeStartName(v)) /\ Quiet
    \/ (\E v \in Emails : TypeStartEmail(v)) /\ Quiet
    \/ (\E v \in Phones : TypeStartPhone(v)) /\ Quiet
    \/ issued < limit /\ ClickStart /\ Quiet
    \/ (\E v \in InputTexts : TypeInput(v)) /\ Quiet
    \/ issued < limit /\ PressEnter /\ Quiet
    \/ issued < limit /\ ClickSend /\ Quiet
    \/ /\ issued < limit
       /\ \E i \in 1..Len(quickReplies) : ClickQuickReply(i)
       /\ Quiet
    \/ /\ issued < limit
       /\ \E file \in Files \cup {NoFile} : ChooseFile(file)
       /\ Quiet
    \/ /\ \E c \in pending :
             \E data \in StartResponses : StartResolved(c, data)
       /\ Quiet
    \/ (\E c \in pending : StartRejected(c)) /\ Quiet
    \/ /\ \E c \in pending : \E res \in SendResponses : SendResolved(c, res)
       /\ Quiet
    \/ (\E c \in pending : SendRejected(c)) /\ Quiet
    \/ (\E c \in pending : UploadResolved(c)) /\ Quiet
    \/ (\E c \in pending : UploadRejected(c)) /\ Quiet
    \/ Minimize /\ Quiet
    \/ Restore /\ Quiet

\* the conversation alone: the settings menu stays closed
Next == Step(MaxCalls)

Spec == Init /\ [][Next]_vars

\* the same runs, followed by one more choice in the file dialog
UploadNext ==
    \/ Next
    \/ /\ issued = MaxCalls
       /\ \E file \in Files \cup {NoFile} : ChooseFile(file)
       /\ Quiet

UploadSpec == Init /\ [][UploadNext]_vars

\* the same events, followed to the message list
ScrollStep(limit) ==
    \/ (\E v \in Names : TypeStartName(v)) /\ Followed
    \/ (\E v \in Emails : TypeStartEmail(v)) /\ Followed
    \/ (\E v \in Phones : TypeStartPhone(v)) /\ Followed
    \/ issued < limit /\ ClickStart /\ Followed
    \/ (\E v \in InputTexts : TypeInput(v)) /\ Followed
    \/ issued < limit /\ PressEnter /\ Followed
    \/ issued < limit /\ ClickSend /\ Followed
    \/ /\ issued < limit
       /\ \E i \in 1..Len(quickReplies) : ClickQuickReply(i)
       /\ Followed
    \/ /\ issued < limit
       /\ \E file \in Files \cup {NoFile} : ChooseFile(file)
       /\ Followed
    \/ /\ \E c \in pending :
             \E data \in StartResponses : StartResolved(c, data)
       /\ Followed
    \/ (\E c \in pending : StartRejected(c)) /\ Followed
    \/ /\ \E c \in pending : \E res \in SendResponses : SendResolved(c, res)
       /\ Followed
    \/ (\E c \in pending : SendRejected(c)) /\ Followed
    \/ (\E c \in pending : UploadResolved(c)) /\ Followed
    \/ (\E c \in pending : UploadRejected(c)) /\ Followed
    \/ Minimize /\ Followed
    \/ Restore /\ Followed

\* the conversation and the scrolling of the message list
ScrollNext ==
    \/ ScrollStep(MaxScrollCalls)
    \/ \E y \in 0..MaxScrollOf(messages, quickReplies) :
          y % ScrollGrain = 0 /\ ScrollList(y)
    \/ ClickScrollToBottom

ScrollSpec == Init /\ [][ScrollNext]_vars

\* the conversation, with the settings menu opened and closed meanwhile
FrameNext ==
    \/ Step(MaxFrameCalls)
    \/ ToggleSettings

FrameSpec == Init /\ [][FrameNext]_vars

\* the conversation followed to the message list, the list scrolled to its
\* top and back to its bottom, and the settings menu opened and closed
\* meanwhile
EventsNext ==
    \/ ScrollStep(MaxEventCalls)
    \/ ScrollList(0)
    \/ ClickScrollToBottom
    \/ ToggleSettings

EventsSpec == Init /\ [][EventsNext]_vars

\* the settings menu and the display mode alone
SettingsNext ==
    \/ ToggleSettings
    \/ \E page \in Categories : HoverCategory(page)
    \/ \E y \in 0..RootListHeight : MoveOverRootList(y)
    \/ Minimize /\ Quiet
    \/ Restore /\ Quiet

SettingsSpec == Init /\ [][SettingsNext]_vars

\* the start form filled in with a valid name, a valid email and a phone
\* value out of PhoneTexts
PhoneNext ==
    \/ TypeStartName(" Jane Doe ") /\ Quiet
    \/ TypeStartEmail("jane@x.com") /\ Quiet
    \/ (\E v \in PhoneTexts : TypeStartPhone(v)) /\ Quiet
    \/ ClickStart /\ Quiet

PhoneSpec == Init /\ [][PhoneNext]_vars

\* every transport call eventually completes: axios settles each promise
FairNext == Step(MaxFairCalls)

FairSpec ==
    Init /\ [][FairNext]_vars /\ WF_vars(Settle /\ Quiet)

-----------------------------------------------------------------------------
(* Vocabulary of the properties *)

Last(s) == s[Len(s)]

\* the call c is settled by this step
Settles(c) == c \in pending /\ c \notin pending'

\* this step appends exactly one entry to the timeline
AppendsOne ==
    /\ Len(messages') = Len(messages) + 1
    /\ SubSeq(messages', 1, Len(messages)) = messages

\* the quick-reply list a quick_replies value stands for
ListOf(shape) == IF shape.kind = "array" THEN shape.items ELSE <<>>

\* timeline positions of the bot turns, and of the replies to a send; only
\* the reply to a send comes with a quick_replies member
BotTurns == {i \in DOMAIN origin : origin[i] # "user"}
SendReplies == {i \in DOMAIN origin : origin[i] = "send"}

Newest(S) == CHOOSE i \in S : \A j \in S : j <= i

-----------------------------------------------------------------------------
(* C1 *)

\* C1: in every reachable state at most one sendMessage transport call is in
\* flight, whatever the user does while a send or an upload is pending.
C1_AtMostOneSendInFlight == Cardinality(InFlight("send")) <= 1

-----------------------------------------------------------------------------
(* C2 *)

\* C2: no sendMessage or uploadDocument call is issued while Session.id is
\* absent: every such call in flight carries the present session id.
C2_NoCallWithoutSession ==
    \A c \in pending :
        c.op \in {"send", "upload"} =>
            /\ sessionId # NoSession
            /\ c.args[1] = sessionId

\* a send and an upload are in flight together, both under the session
C2_Witness ==
    /\ sessionId # NoSession
    /\ InFlight("send") # {}
    /\ InFlight("upload") # {}

-----------------------------------------------------------------------------
(* C3 *)

\* the preconditions of a send on the raw text it is handed
C3_Violates(raw) == sessionId = NoSession \/ trim(raw) = "" \/ loading

C3_NoOp ==
    UNCHANGED <<messages, pending, issued, loading, quickReplies, input>>

\* C3: a send invoked without a session id, with a text that is empty after
\* trimming, or while loading is true appends nothing, issues no transport
\* call and leaves loading, the quick replies and the compose buffer alone.
C3_SendPreconditionNoOp ==
    [][ /\ ((PressEnter \/ ClickSend) /\ C3_Violates(input)) => C3_NoOp
        /\ \A i \in 1..Len(quickReplies) :
              (ClickQuickReply(i) /\ C3_Violates(quickReplies[i])) => C3_NoOp
      ]_vars

-----------------------------------------------------------------------------
(* C4 *)

\* C4: when a send is settled its user message is already in the timeline,
\* at the place where the send put it, and the bot message the send produces
\* is appended behind everything that is there; nothing is moved or merged.
C4_UserBeforeBot ==
    [][ \A c \in InFlight("send") :
            Settles(c) =>
                /\ c.at \in 1..Len(messages)
                /\ messages[c.at].sender = "user"
                /\ messages[c.at].text = c.args[2]
                /\ AppendsOne
                /\ Last(messages').sender = "bot"
      ]_vars

\* a reply sits behind its user message with another entry in between
C4_Witness ==
    \E i \in SendReplies : \E j \in 1..(i - 1) : \E k \in (j + 1)..(i - 1) :
        /\ origin[j] = "user"
        /\ origin[k] \in {"user", "upload", "uploadFail", "sendFail"}

-----------------------------------------------------------------------------
(* C5 *)

\* C5: the step that settles a failed send appends exactly one bot message
\* with the fixed fallback text behind the user message, leaves loading
\* false, and leaves the quick replies as they were before the send.
C5_SendFailure ==
    [][ \A c \in InFlight("send") :
            (Settles(c) /\ Last(origin') = "sendFail") =>
                /\ AppendsOne
                /\ Last(messages').sender = "bot"
                /\ Last(messages').text = "Sorry, something went wrong."
                /\ c.at \in 1..Len(messages)
                /\ messages[c.at].sender = "user"
                /\ loading' = FALSE
                /\ quickReplies' = c.qr
      ]_vars

-----------------------------------------------------------------------------
(* C6 *)

\* C6: right after a successful send the quick replies are exactly the
\* quick_replies array of the response, and empty when the response has no
\* array there; nothing of the previous list is kept.
C6_RepliesReplaced ==
    (origin # <<>> /\ Last(origin) = "send") =>
        quickReplies = ListOf(lastReply)

\* the reply to a clicked quick reply came without an array and has emptied
\* the list
C6_Witness ==
    /\ Len(origin) >= 2
    /\ Last(origin) = "send"
    /\ lastReply.kind = "object"
    /\ quickReplies = <<>>
    /\ messages[Len(messages) - 1].sender = "user"
    /\ messages[Len(messages) - 1].text = "Yes"

-----------------------------------------------------------------------------
(* C7 *)

\* C7 as stated: the quick replies are those that came with the latest bot
\* turn of the timeline, whichever operation appended it.
C7_LatestBotTurn ==
    quickReplies = IF BotTurns = {} THEN <<>>
                   ELSE IF origin[Newest(BotTurns)] = "send"
                        THEN ListOf(lastReply)
                        ELSE <<>>

\* C7: in every reachable state the quick replies are those that came with
\* the latest reply to a successful send (empty when it carried none or
\* when there is no such reply); bot messages of start, upload and the
\* failure fallbacks leave them as they are.
C7_LatestSendReply ==
    quickReplies = IF SendReplies = {} THEN <<>>
                   ELSE ListOf(lastReply)

\* the quick replies of an earlier reply outlive a later bot turn
C7_Witness ==
    /\ quickReplies # <<>>
    /\ BotTurns # {}
    /\ origin[Newest(BotTurns)] \in {"upload", "uploadFail", "sendFail"}

-----------------------------------------------------------------------------
(* C8 *)

\* C8: the timeline is append-only: in every step the old timeline is a
\* prefix of the new one.
C8_AppendOnly ==
    [][ /\ Len(messages') >= Len(messages)
        /\ SubSeq(messages', 1, Len(messages)) = messages
      ]_vars

\* a timeline with user and bot entries of several operations
C8_Witness ==
    /\ Len(messages) >= 4
    /\ \E i \in DOMAIN messages : messages[i].sender = "user"
    /\ \E i \in DOMAIN origin : origin[i] \in {"upload", "uploadFail"}

-----------------------------------------------------------------------------
(* C9 *)

\* the start form of the scenario: every field valid
C9_ValidForm ==
    /\ trim(startName) = "Jane Doe"
    /\ trim(startEmail) = "jane@x.com"
    /\ trim(startPhone) = "+1 555-123-4567"

\* a start with valid fields issues exactly one startSession call
C9_OneCall ==
    (ClickStart /\ C9_ValidForm) =>
        /\ issued' = issued + 1
        /\ \E c \in pending' :
              /\ pending' = pending \cup {c}
              /\ c \notin pending
              /\ c.op = "start"
              /\ c.args = <<"Jane Doe", "+1 555-123-4567", "jane@x.com">>
        /\ InFlight("start") = {}

\* C9 as stated: once the call completes, one bot message has been appended
\* and Session.id is present.
C9_StartCompletes ==
    [][ /\ C9_OneCall
        /\ \A c \in InFlight("start") :
              Settles(c) =>
                  /\ Len(messages') = c.at + 1
                  /\ AppendsOne
                  /\ Last(messages').sender = "bot"
                  /\ sessionId' # NoSession
      ]_vars

\* C9: a start with valid fields issues exactly one startSession call and,
\* once that call completes successfully, exactly one bot message has been
\* appended and Session.id is present.
C9_StartSucceeds ==
    [][ /\ C9_OneCall
        /\ \A c \in InFlight("start") :
              (Settles(c) /\ Last(origin') = "start") =>
                  /\ Len(messages') = c.at + 1
                  /\ AppendsOne
                  /\ Last(messages').sender = "bot"
                  /\ sessionId' # NoSession
      ]_vars

\* the session was opened by the first bot message of the timeline
C9_Witness ==
    /\ sessionId # NoSession
    /\ InFlight("start") = {}
    /\ Len(origin) = 1
    /\ origin[1] = "start"

-----------------------------------------------------------------------------
(* C10 *)

\* the message the start form owes each value of the input domains,
\* "" where the value is acceptable
C10_NameError(v) == IF v \in {"", " "} THEN "Name is required" ELSE ""

C10_EmailError(v) ==
    CASE v = "" -> "Email is required"
      [] v \in {"bad", "a@b"} -> "Please enter a valid email address"
      [] OTHER -> ""

C10_PhoneError(v) ==
    CASE v = "" -> "Phone is required"
      [] v \in {"12345", "555-CALL-NOW"} -> "Please enter a valid phone number"
      [] OTHER -> ""

C10_Expected ==
    [name |-> C10_NameError(startName),
     email |-> C10_EmailError(startEmail),
     phone |-> C10_PhoneError(startPhone)]

C10_Violating == {f \in DOMAIN C10_Expected : C10_Expected[f] # ""}

\* C10: a start with an invalid field issues no transport call, leaves
\* Session.id, the starting status and the timeline as they are, and the
\* error map gets the message of every violating field.
C10_InvalidStart ==
    [][ (ClickStart /\ C10_Violating # {}) =>
            /\ UNCHANGED <<pending, issued, sessionId, starting, messages>>
            /\ \A f \in C10_Violating :
                  /\ f \in DOMAIN validationErrors'
                  /\ validationErrors'[f] = C10_Expected[f]
      ]_vars

\* the form was refused for its email, and for nothing else
C10_Witness ==
    /\ startEmail = "bad"
    /\ DOMAIN validationErrors = {"email"}
    /\ validationErrors["email"] = "Please enter a valid email address"
    /\ sessionId = NoSession
    /\ pending = {}

-----------------------------------------------------------------------------
(* C11 *)

\* C11: when the startSession call fails, the step that completes it appends
\* exactly one bot message with the text "Unable to start session. Please
\* try again.", leaves Session.id absent and ends with starting false.
C11_StartFailure ==
    [][ \A c \in InFlight("start") :
            (Settles(c) /\ Last(origin') = "startFail") =>
                /\ AppendsOne
                /\ Last(messages').sender = "bot"
                /\ Last(messages').text =
                       "Unable to start session. Please try again."
                /\ sessionId = NoSession
                /\ sessionId' = NoSession
                /\ starting
                /\ ~starting'
      ]_vars

\* a failed start has been answered by the fallback and the form is usable
\* again
C11_Witness ==
    /\ origin # <<>>
    /\ Last(origin) = "startFail"
    /\ Last(messages).text = START_FALLBACK
    /\ sessionId = NoSession
    /\ ~starting
    /\ InFlight("start") = {}

-----------------------------------------------------------------------------
(* C12 *)

\* C12: provided every transport call eventually completes, a busy flag that
\* is set (starting, or loading, which also stands for a pending upload) is
\* eventually cleared; the step that completes a call clears the flag of its
\* operation whether the call succeeded or failed.
C12_BusyFlagsReleased ==
    /\ starting ~> ~starting
    /\ loading ~> ~loading
    /\ [][ \A c \in pending :
               Settles(c) => IF c.op = "start" THEN ~starting' ELSE ~loading'
         ]_vars

\* both flags are clear again after a start, a failed send and an upload
\* have completed
C12_Witness ==
    /\ ~starting
    /\ ~loading
    /\ pending = {}
    /\ \E i, j, k \in DOMAIN origin :
          /\ origin[i] = "start"
          /\ origin[j] = "sendFail"
          /\ origin[k] \in {"upload", "uploadFail"}

-----------------------------------------------------------------------------
(* C13 *)

\* C13: in every reachable state at most one uploadDocument call is pending,
\* also when a send is started or completes while an upload is in flight.
C13_AtMostOneUploadInFlight == Cardinality(InFlight("upload")) <= 1

-----------------------------------------------------------------------------
(* C14 *)

\* C14: the step that accepts an upload appends no message; the step that
\* completes it appends exactly one bot message, the confirmation on success
\* and "Upload failed. Try again." on failure, and in both cases ends with
\* the file selection cleared and loading false.
C14_UploadCompletion ==
    [][ /\ (\E c \in pending' \ pending : c.op = "upload") =>
               messages' = messages
        /\ \A c \in InFlight("upload") :
               Settles(c) =>
                   /\ AppendsOne
                   /\ Last(messages').sender = "bot"
                   /\ Last(messages').text =
                          IF Last(origin') = "uploadFail"
                          THEN "Upload failed. Try again."
                          ELSE UPLOAD_OK
                   /\ Last(origin') \in {"upload", "uploadFail"}
                   /\ fileValue' = NoFile
                   /\ ~loading'
      ]_vars

\* a failed upload chosen in the expanded chat has been answered, with the
\* file selection cleared and loading released
C14_Witness ==
    /\ origin # <<>>
    /\ Last(origin) = "uploadFail"
    /\ Last(messages).text = UPLOAD_FALLBACK
    /\ ChatRendered
    /\ fileValue = NoFile
    /\ ~loading
    /\ InFlight("upload") = {}

-----------------------------------------------------------------------------
(* C15 *)

\* C15: at most one startSession call is in flight; while starting is set no
\* event issues a second start call or changes what a start writes (the
\* validation errors, the starting flag other than by the call's completion).
C15_SingleStart ==
    /\ [](Cardinality(InFlight("start")) <= 1)
    /\ [][ starting =>
              /\ \A c \in pending' \ pending : c.op # "start"
              /\ validationErrors' = validationErrors
              /\ starting' \/ \E c \in InFlight("start") : Settles(c)
         ]_vars

\* a start call is in flight with the form still on screen, its button
\* disabled
C15_Witness ==
    /\ starting
    /\ StartCardRendered
    /\ Cardinality(InFlight("start")) = 1
    /\ DOMAIN errorsOf(startName, startEmail, startPhone) = {}

-----------------------------------------------------------------------------
(* C16 *)

\* C16: whenever the settings menu is shown with one of the categories
\* active, submenuTop is the top offset of that category's entry within the
\* root list minus the scroll offset of the list.
C16_FlyoutOffset ==
    (CardRendered /\ settingsOpen /\ settingsPage \in Categories) =>
        submenuTop = TopOf(settingsPage) - rootScrollTop

-----------------------------------------------------------------------------
(* C17 *)

\* C17: the active category is always one of the eight categories, and the
\* step in which the toggle opens the menu ends with it being language.
C17_ActiveCategory ==
    /\ [](settingsPage \in Categories)
    /\ [][ (~settingsOpen /\ settingsOpen') => settingsPage' = "language"
         ]_vars

-----------------------------------------------------------------------------
(* C18 *)

\* C18: a step that appends a message ends, its auto-scroll pass included,
\* with the message list showing the new message scrolled to the bottom and
\* with the scroll button hidden.
C18_AutoScrollAfterAppend ==
    [][ Len(messages') > Len(messages) =>
            /\ ChatRendered'
            /\ scrollTop' = MaxScrollOf(messages', quickReplies')
            /\ ~showScrollButton'
      ]_vars

-----------------------------------------------------------------------------
(* C19 *)

\* C19: after a scroll event of the message list the scroll button shows
\* exactly when scrollTop + viewport height < scrollHeight - 10; after an
\* auto-scroll pass and after a click on the scroll button it is hidden.
C19_ScrollButton ==
    [][ /\ ScrollList(scrollTop')
               => (showScrollButton' <=>
                      scrollTop' + ViewHeight <
                          ScrollHeightOf(messages', quickReplies') - 10)
        /\ (Len(messages') > Len(messages) /\ ChatRendered /\ ChatRendered')
               => ~showScrollButton'
        /\ ClickScrollToBottom =>
               /\ ~showScrollButton'
               /\ scrollTop' = MaxScrollOf(messages', quickReplies')
      ]_vars

\* a scroll event has left the list more than 10 above its bottom, with
\* the scroll button showing
C19_Witness ==
    /\ ChatRendered
    /\ showScrollButton
    /\ scrollTop + ViewHeight <
           ScrollHeightOf(messages, quickReplies) - BottomTolerance

-----------------------------------------------------------------------------
(* C20 *)

\* C20: a step that minimizes or restores the widget changes none of the
\* timeline, Session.id, the quick-reply set, the busy flags, the compose
\* buffer and the settings state (open, active category, flyout offset).
C20_MinimizeFrame ==
    [][ minimized' # minimized =>
            UNCHANGED <<messages, sessionId, quickReplies, starting, loading,
                        input, settingsOpen, settingsPage, submenuTop>>
      ]_vars

\* the widget is minimized in the middle of a conversation, with a call
\* pending, quick replies offered, text in the compose buffer and the
\* settings menu open
C20_Witness ==
    /\ minimized
    /\ sessionId # NoSession
    /\ messages # <<>>
    /\ quickReplies # <<>>
    /\ loading
    /\ input # ""
    /\ settingsOpen

-----------------------------------------------------------------------------
(* C21 *)

\* the user events that can issue a transport call
C21_Trigger ==
    \/ ClickStart
    \/ PressEnter
    \/ ClickSend
    \/ \E i \in 1..Len(quickReplies) : ClickQuickReply(i)
    \/ \E file \in Files : ChooseFile(file)

\* the user event of this step passes the preconditions of its operation
C21_Accepted ==
    \/ ClickStart /\ DOMAIN errorsOf(startName, startEmail, startPhone) = {}
    \/ (PressEnter \/ ClickSend) /\ trim(input) # ""
    \/ \E i \in 1..Len(quickReplies) :
          ClickQuickReply(i) /\ trim(quickReplies[i]) # ""
    \/ \E file \in Files : ChooseFile(file)

-----------------------------------------------------------------------------
(* C22 *)

\* C22: a call leaves the set of calls in flight only by the step that
\* applies its result, which appends one bot message and releases the busy
\* flag of its operation; that step is possible in every state in which the
\* call is in flight, minimized or not; and, provided every transport call
\* eventually completes, every call in flight is eventually applied.
C22_NeverCancelled ==
    /\ [][ \A c \in pending :
              c \notin pending' =>
                  /\ AppendsOne
                  /\ Last(messages').sender = "bot"
                  /\ Len(messages') > c.at
                  /\ IF c.op = "start" THEN ~starting' ELSE ~loading'
         ]_vars
    /\ [](pending # {} => ENABLED (Settle /\ Quiet))
    /\ \A id \in 1..MaxFairCalls :
          (\E c \in pending : c.id = id) ~> (\A c \in pending : c.id # id)

\* the widget is minimized, nothing is in flight any more and the timeline
\* ends with the reply to a send and the confirmation of an upload
C22_Witness ==
    /\ minimized
    /\ pending = {}
    /\ ~loading
    /\ Len(origin) >= 2
    /\ {origin[Len(origin) - 1], Last(origin)} = {"send", "upload"}

-----------------------------------------------------------------------------
(* C23 *)

\* C23: in every reachable state loading is true while a sendMessage call is
\* in flight, and the busy flag of the upload, which is loading as well, is
\* true while an uploadDocument call is in flight.
C23_BusyWhileInFlight ==
    /\ InFlight("send") # {} => loading
    /\ InFlight("upload") # {} => loading

-----------------------------------------------------------------------------
(* C24 *)

\* timeline positions of the answers to sends, fallbacks included
C24_Answers == {i \in DOMAIN origin : origin[i] \in {"send", "sendFail"}}
C24_Asked == {i \in DOMAIN origin : origin[i] = "user"}

\* C24: the step that issues a sendMessage call appends the user message
\* with the trimmed text and sets loading, and appends no bot message; while
\* the call is in flight that user message is in the timeline and the answer
\* to the call is not; the step that completes the call appends the answer
\* after the user message and ends with loading false; and loading is never
\* cleared by a step that appends no bot message.
C24_SendOrder ==
    /\ [][ /\ \A c \in pending' \ pending :
                 c.op = "send" =>
                     /\ AppendsOne
                     /\ c.at = Len(messages')
                     /\ Last(messages') =
                           [sender |-> "user", text |-> c.args[2],
                            ts |-> Last(messages').ts]
                     /\ c.args[2] = trim(c.args[2])
                     /\ c.args[2] # ""
                     /\ loading'
           /\ \A c \in InFlight("send") :
                 Settles(c) =>
                     /\ AppendsOne
                     /\ Last(messages').sender = "bot"
                     /\ Len(messages') > c.at
                     /\ Len(messages') \in C24_Answers'
                     /\ ~loading'
           /\ (loading /\ ~loading') =>
                 AppendsOne /\ Last(messages').sender = "bot"
         ]_vars
    /\ [](/\ \A c \in InFlight("send") :
               /\ c.at \in C24_Asked
               /\ messages[c.at].sender = "user"
               /\ messages[c.at].text = c.args[2]
          /\ Cardinality(C24_Answers) + Cardinality(InFlight("send")) =
                Cardinality(C24_Asked))

\* a send has been answered: user message, then the reply, loading released
C24_Witness ==
    /\ Len(origin) >= 3
    /\ origin[Len(origin) - 1] = "user"
    /\ Last(origin) = "send"
    /\ messages[Len(messages) - 1].text = "Hello"
    /\ ~loading
    /\ InFlight("send") = {}

-----------------------------------------------------------------------------
(* C25 *)

\* C25: a send from the compose field (commit key or send trigger) ends its
\* issuing step, in which the call is still in flight, with the compose
\* buffer empty; a send from a quick reply ends it with the compose buffer
\* as it was.
C25_ComposeBuffer ==
    [][ /\ ((PressEnter \/ ClickSend) /\ issued' = issued + 1) =>
              /\ input' = ""
              /\ \E c \in InFlight("send")' :
                    c.id = issued' /\ c.args[2] = trim(input)
        /\ \A i \in 1..Len(quickReplies) :
              (ClickQuickReply(i) /\ issued' = issued + 1) =>
                  /\ input' = input
                  /\ \E c \in InFlight("send")' :
                        c.id = issued' /\ c.args[2] = trim(quickReplies[i])
      ]_vars

\* a quick reply was sent while the compose field held a draft, and the
\* draft is still there with the call in flight
C25_Witness ==
    /\ Truthy(trim(input))
    /\ Len(messages) > 0
    /\ Last(origin) = "user"
    /\ Last(messages).text # trim(input)
    /\ \E c \in InFlight("send") : c.at = Len(messages)
    /\ \E i \in 1..(Len(messages) - 1) :
          origin[i] = "user" /\ messages[i].text = trim(input)

-----------------------------------------------------------------------------
(* C26 *)

\* the offset the root list owes a pointer move to y when it is at top
C26_Expected(y, top) ==
    IF y < HoverBand
    THEN (IF top >= HoverStep THEN top - HoverStep ELSE 0)
    ELSE IF RootListHeight - y < HoverBand
         THEN (IF top + HoverStep <= MaxRootScroll
               THEN top + HoverStep ELSE MaxRootScroll)
         ELSE top

\* C26: a pointer move over the displayed root list less than 20 units from
\* its top (bottom) edge moves its scroll offset by 12 towards that edge,
\* no further than 0 (scrollHeight minus the height of the list); a move
\* outside both bands leaves the offset as it is; the offset is always
\* within that range.
C26_HoverScroll ==
    /\ [][ pointerY' # pointerY =>
              rootScrollTop' = C26_Expected(pointerY', rootScrollTop)
         ]_vars
    /\ [](rootScrollTop \in 0..MaxRootScroll)

-----------------------------------------------------------------------------
(* C27 *)

\* C27: a start attempt ends with the error map holding an entry for each
\* field whose value violates its constraint and for no other field, so
\* that an entry of an earlier attempt for a field that is valid now is
\* gone.
C27_ErrorsOfThisAttempt ==
    [][ ClickStart =>
            /\ DOMAIN validationErrors' = C10_Violating
            /\ \A f \in DOMAIN validationErrors \ C10_Violating :
                  f \notin DOMAIN validationErrors'
      ]_vars

\* an attempt with valid fields went through: the map is empty and the
\* call is in flight
C27_Witness ==
    /\ DOMAIN validationErrors = {}
    /\ starting
    /\ InFlight("start") # {}
    /\ C10_Violating = {}

-----------------------------------------------------------------------------
(* C28 *)

C28_Listed(c) ==
    c \in {"0", "1", "2", "3", "4", "5", "6", "7", "8", "9", " ", "+", "-",
           "(", ")"}

\* at least 10 characters, each a digit, a space, +, - or a parenthesis
C28_AsClaimed(s) ==
    /\ Len(s) >= 10
    /\ \A k \in 1..Len(s) : C28_Listed(SubSeq(s, k, k))

\* C28: a start attempt with a non-empty trimmed phone value records no
\* phone error if and only if the value has at least 10 characters and
\* every character is a digit, a space, +, - or a parenthesis.
C28_PhoneCheck ==
    [][ (ClickStart /\ trim(startPhone) # "") =>
            ("phone" \notin DOMAIN validationErrors'
                <=> C28_AsClaimed(trim(startPhone)))
      ]_vars

\* s without its first character when that is a plus sign
C28_AfterPlus(s) ==
    IF Len(s) > 0 /\ SubSeq(s, 1, 1) = "+" THEN SubSeq(s, 2, Len(s)) ELSE s

C28_InClass(c) ==
    c \in {"0", "1", "2", "3", "4", "5", "6", "7", "8", "9", " ", "\t", "\n",
           "-", "(", ")"}

\* C28, amended: a start attempt with a non-empty trimmed phone value
\* records no phone error if and only if the value, after an optional
\* leading plus sign, has at least 10 characters and each of them is a
\* digit, a white-space character, - or a parenthesis.
C28_PhoneCheckLeadingPlus ==
    [][ (ClickStart /\ trim(startPhone) # "") =>
            ("phone" \notin DOMAIN validationErrors'
                <=> /\ Len(C28_AfterPlus(trim(startPhone))) >= 10
                    /\ \A k \in 1..Len(C28_AfterPlus(trim(startPhone))) :
                          C28_InClass(SubSeq(C28_AfterPlus(trim(startPhone)),
                                             k, k)))
      ]_vars

\* a value of 10 listed characters, the first a plus sign, was refused
C28_Witness ==
    /\ startPhone = "+123456789"
    /\ "phone" \in DOMAIN validationErrors
    /\ validationErrors["phone"] = "Please enter a valid phone number"

-----------------------------------------------------------------------------
(* C29 *)

\* the step issues a sendMessage call for the text of the compose buffer
C29_SendsBuffer ==
    /\ issued' = issued + 1
    /\ \E c \in InFlight("send")' : c.id = issued' /\ c.args[2] = trim(input)
    /\ input # ""
    /\ input' = ""

\* C29: while the chat is shown, the send trigger can be clicked if and only
\* if loading is false and the compose buffer is non-empty after trimming;
\* and no step taken while loading is true sends the compose buffer, so a
\* commit-key press then issues no send.
C29_SendTrigger ==
    /\ [](ChatRendered =>
            (ENABLED ClickSend <=> (~loading /\ trim(input) # "")))
    /\ [][ C29_SendsBuffer => ~loading /\ trim(input) # "" ]_vars
    /\ [][ (loading /\ issued' = issued + 1) =>
               /\ input' = input
               /\ \A c \in pending' \ pending :
                     c.op = "send" =>
                         \E i \in 1..Len(quickReplies) :
                             c.args[2] = trim(quickReplies[i])
         ]_vars

\* the compose buffer holds a text while loading is true: neither the
\* trigger nor the commit key sends it
C29_Witness ==
    /\ ChatRendered
    /\ loading
    /\ trim(input) # ""
    /\ ~ENABLED ClickSend
    /\ ~ENABLED PressEnter

-----------------------------------------------------------------------------
(* C30 *)

\* C30: a step that starts with Session.id present leaves it as it is, and
\* the only step that changes Session.id starts with it absent and completes
\* a startSession call.
C30_SessionIdStable ==
    [][ /\ sessionId # NoSession => sessionId' = sessionId
        /\ sessionId' # sessionId =>
              /\ sessionId = NoSession
              /\ sessionId' \in SessionIds
              /\ \E c \in InFlight("start") : Settles(c)
      ]_vars

\* the session has seen a send, an upload, the settings menu and the
\* minimized mode, and its id is the one the start call returned
C30_Witness ==
    /\ sessionId \in SessionIds
    /\ \E i \in DOMAIN origin : origin[i] \in {"send", "sendFail"}
    /\ \E i \in DOMAIN origin : origin[i] \in {"upload", "uploadFail"}
    /\ settingsOpen
    /\ minimized

-----------------------------------------------------------------------------
(* C31 *)

\* C31: while Session.id is absent the quick-reply set is empty and every
\* entry of the timeline is a bot message with the start-failure text,
\* appended by a failed start; in particular there is no user message.
C31_BeforeSession ==
    sessionId = NoSession =>
        /\ quickReplies = <<>>
        /\ \A i \in 1..Len(messages) :
              /\ messages[i].sender = "bot"
              /\ messages[i].text = "Unable to start session. Please try again."
              /\ origin[i] = "startFail"

\* two starts have failed and there is still no session
C31_Witness ==
    /\ sessionId = NoSession
    /\ Len(messages) = 2
    /\ pending = {}
    /\ ~starting

-----------------------------------------------------------------------------
(* C32 *)

C32_Users == {i \in 1..Len(messages) : messages[i].sender = "user"}
C32_Bots == {i \in 1..Len(messages) : messages[i].sender = "bot"}

\* the sends that completed, as the timeline records them
C32_SendsCompleted ==
    {i \in DOMAIN origin : origin[i] \in {"send", "sendFail"}}

\* C32: the number of user messages is the number of sendMessage calls
\* issued (those in flight and those completed), and the number of bot
\* messages is the number of transport calls completed; a step appends at
\* most one message, a user message exactly when it issues a sendMessage
\* call and a bot message exactly when it completes a call.
C32_MessageCounts ==
    /\ [](/\ Cardinality(C32_Users) =
                Cardinality(InFlight("send")) +
                Cardinality(C32_SendsCompleted)
          /\ Cardinality(C32_Bots) = issued - Cardinality(pending)
          /\ Cardinality(C32_Users) + Cardinality(C32_Bots) = Len(messages))
    /\ [][ /\ messages' # messages => AppendsOne
           /\ (AppendsOne /\ Last(messages').sender = "user")
                 <=> \E c \in InFlight("send")' : c \notin pending
           /\ (AppendsOne /\ Last(messages').sender = "bot")
                 <=> \E c \in pending : Settles(c)
           /\ Cardinality(pending \ pending') <= 1
         ]_vars

\* a start, a send and an upload have completed: one user message stands
\* against three bot messages
C32_Witness ==
    /\ pending = {}
    /\ issued = 3
    /\ Cardinality(C32_Users) = 1
    /\ Cardinality(C32_Bots) = 3
    /\ \E i \in DOMAIN origin : origin[i] \in {"upload", "uploadFail"}

-----------------------------------------------------------------------------
(* C33 *)

\* C33: a step that changes the quick-reply set completes a sendMessage
\* call with a response and takes the set from that response; every other
\* step (a start, an upload, a failed send, the append of a user message, a
\* scroll event, the settings toggle, minimize and restore) leaves the set
\* as it is.
C33_QuickRepliesFrame ==
    [][ quickReplies' # quickReplies =>
            /\ \E c \in InFlight("send") : Settles(c)
            /\ AppendsOne
            /\ Last(origin') = "send"
            /\ quickReplies' = ListOf(lastReply')
            /\ UNCHANGED <<sessionId, input, minimized, settingsOpen>>
      ]_vars

\* the quick replies of a response are still offered after an upload and
\* with the settings menu open, the list scrolled away from the bottom
C33_Witness ==
    /\ quickReplies # <<>>
    /\ Last(origin) \in {"upload", "uploadFail"}
    /\ settingsOpen
    /\ showScrollButton

====
